---- MODULE Spec2Model ----
(***************************************************************************)
(* A model of orvibo.py (cherezov/orvibo, version 1.5): the packet codec,  *)
(* the select-driven send/receive loops of class Packet, and the session   *)
(* operations of class Orvibo, run by the interpreter the file names in    *)
(* its first line (python3).                                               *)
(*                                                                         *)
(* Bytes are the integers 0..255, byte strings are sequences of bytes.     *)
(* An optional value is a sequence of length at most one: <<>> is None.    *)
(* Python values whose type decides a comparison are records [t, v].       *)
(***************************************************************************)
EXTENDS Integers, Sequences, FiniteSets, TLC

\* ------------------------------------------------------------------ bounds

\* Longest payload drawn byte by byte for Packet.compile.
MaxPayloadLen == 2

\* ------------------------------------------------------- module constants

py3 == TRUE

MAGIC == <<104, 100>>
SPACES_6 == <<32, 32, 32, 32, 32, 32>>
ZEROS_4 == <<0, 0, 0, 0>>

ON == <<1>>
OFF == <<0>>

DISCOVER == <<113, 97>>
DISCOVER_RESP == DISCOVER
SUBSCRIBE == <<99, 108>>
SUBSCRIBE_RESP == SUBSCRIBE
CONTROL == <<100, 99>>
CONTROL_RESP == CONTROL
SOCKET_EVENT == <<115, 102>>
LEARN_IR == <<108, 115>>
LEARN_IR_RESP == LEARN_IR
BLAST_IR == <<105, 99>>
BLAST_RF433 == CONTROL
LEARN_RF433 == CONTROL

\* struct.pack('>h', n) accepts -32768 <= n <= H_MAX.
H_MAX == 32767

\* ------------------------------------------------------------ Python values

None == <<>>
Some(x) == <<x>>

PyNone == [t |-> "None", v |-> <<>>]
PyBool(b) == [t |-> "bool", v |-> <<IF b THEN 1 ELSE 0>>]
PyInt(n) == [t |-> "int", v |-> <<n>>]
PyBytes(s) == [t |-> "bytes", v |-> s]
PyStr(s) == [t |-> "str", v |-> s]
\* An exception that leaves the call: t names its class.
PyRaise(e) == [t |-> e, v |-> <<>>]

\* a == b of Python 3: an int never equals a bytes object, whatever they hold.
PyEq(a, b) ==
    /\ a.t = b.t
    /\ a.v = b.v

Min(a, b) == IF a < b THEN a ELSE b

\* s[a:b] for 0 <= a, 0 <= b: clipped to the string, never an error.
Slice(s, a, b) == SubSeq(s, a + 1, Min(b, Len(s)))

\* s[a:]
SliceFrom(s, a) == SubSeq(s, a + 1, Len(s))

\* b''.join(args)
RECURSIVE Concat(_)
Concat(args) ==
    IF args = <<>> THEN <<>> ELSE Head(args) \o Concat(Tail(args))

RECURSIVE Reverse(_)
Reverse(s) ==
    IF s = <<>> THEN <<>> ELSE Reverse(Tail(s)) \o <<Head(s)>>

reverse_bytes(mac_) == Reverse(mac_)

\* ------------------------------------------------------------- Packet codec

\* struct.pack('>h', n): raises struct.error outside the signed 16-bit range.
StructPackRaises(n) == n > H_MAX \/ n < -(H_MAX + 1)

StructPackH(n) == <<(n % 65536) \div 256, n % 256>>

\* The length Packet.compile counts: MAGIC, the two length bytes, every arg.
CompileLength(args) == Len(MAGIC) + 2 + Len(Concat(args))

CompileRaises(args) == StructPackRaises(CompileLength(args))

\* The mutation: the length counts MAGIC and the args, not its own two bytes.
CompileShortLength(args) ==
    MAGIC \o StructPackH(Len(MAGIC) + Len(Concat(args))) \o Concat(args)

\* Packet.compile(*args): the bytes it stores in self.data.
Compile(args) ==
    MAGIC \o StructPackH(CompileLength(args)) \o Concat(args)

\* Packet.cmd and Packet.length of a packet whose data is the optional d.
PacketCmd(d) == IF d = None THEN <<>> ELSE Slice(d[1], 4, 6)

PacketLength(d) == IF d = None THEN <<>> ELSE Slice(d[1], 2, 4)

\* ------------------------------------------------------------------ bounds

\* Datagrams the network may put in the socket buffer beyond the device's own
\* replies: arrivals are possible while the buffer holds fewer than this.
MaxInbox == 1

\* Longest learn() timeout drawn, in ticks.
MaxLearnTimeout == 1

\* The counters of frames and calls kept for the claims stop at this value.
CountCap == 2

\* Datagrams the network delivers during one discovery scan.
MaxReplies == 3

\* Largest timeout argument drawn for a direct Packet.recv call, besides the default.
MaxRecvTimeout == 3
MaxSendTimeout == 2

\* ---------------------------------------------------------------- time base

\* One tick is 50 ms.  time.time() differences and sleeps are counted in ticks.
\* 0.1 s, the subscription interval tested by __subscribe.
SubscrTicks == 2
\* time.sleep(0.1)
SleepTicks == 2
\* the 1 s timeout of every select.select
SelectTicks == 20

\* A timer that only matters up to cap: t + n, stopping at cap.
Later(t, n, cap) == Min(t + n, cap)

\* --------------------------------------------------------------- loop counts

\* Packet.send(sock, timeout = 10): every caller keeps the default.
SEND_TIMEOUT == 10
\* range(10) of Packet.recv: the loop count does not read the timeout argument.
RECV_LOOPS == 10
\* Packet.recv(sock, expectResponseType = None, timeout = 10), and recv_all alike.
RECV_TIMEOUT == 10
\* sock.recvfrom(1024)
RECV_BUF == 1024
\* range(512) of discover
DISCOVER_LOOPS == 512

\* ------------------------------------------------------------------ inputs

TYPE_SOCKET == "socket"
TYPE_IRDA == "irda"
Types == {TYPE_SOCKET, TYPE_IRDA, "Unknown"}

\* Addresses are written as their four numbers: "192.168.1.10" and a neighbour.
IP == <<192, 168, 1, 10>>
IP2 == <<192, 168, 1, 11>>

\* The hardware id of the device at IP.
DEV_MAC == <<172, 207, 35, 36, 25, 192>>
OTHER_MAC == <<172, 207, 35, 0, 0, 1>>

\* A hardware id whose six bytes are the ASCII digits "123456".
HEX_MAC == <<49, 50, 51, 52, 53, 54>>

\* mac arguments of Orvibo(ip, mac, type).
MacArgs == {PyBytes(DEV_MAC)}

\* The values a random byte takes in the model.
RandomByteValues == {7, 200}

\* _random_n_bytes(n), restricted to strings of one repeated byte.
random_n_bytes(n) == {[i \in 1..n |-> b] : b \in RandomByteValues}

packet_id == random_n_bytes(2)

\* Signals given to emit_ir besides the learned ones.
Signals == {<<>>, <<32>>, <<9, 8>>}

\* The command codes and payloads Packet.compile is called with: every code of
\* the module and two more, payloads byte by byte up to MaxPayloadLen, and the
\* two payloads around the largest length struct.pack accepts.
CommandCodes ==
    {DISCOVER, SUBSCRIBE, CONTROL, SOCKET_EVENT, LEARN_IR, BLAST_IR, <<0, 0>>, <<255, 255>>}

PayloadBytes == {0, 32, 104, 255}

Zeros(n) == [i \in 1..n |-> 0]

Payloads ==
    UNION {[1..n -> PayloadBytes] : n \in 0..MaxPayloadLen}
        \cup {Zeros(H_MAX - 6), Zeros(H_MAX - 5)}

\* --------------------------------------------------------- Orvibo.__init__

IsHexDigit(b) == (b \in 48..57) \/ (b \in 65..70) \/ (b \in 97..102)

HexVal(b) == IF b \in 48..57 THEN b - 48 ELSE IF b \in 65..70 THEN b - 55 ELSE b - 87

\* binascii.unhexlify raises on odd length or on a byte that is no hex digit.
UnhexlifyRaises(s) == Len(s) % 2 = 1 \/ \E i \in 1..Len(s) : ~IsHexDigit(s[i])

Unhexlify(s) == [i \in 1..(Len(s) \div 2) |-> 16 * HexVal(s[2 * i - 1]) + HexVal(s[2 * i])]

\* self.mac after lines 265-274, for a mac argument that is not None.
InitMac(m) ==
    IF py3 /\ m.t = "str" THEN Unhexlify(m.v)
    ELSE IF UnhexlifyRaises(m.v) THEN m.v ELSE Unhexlify(m.v)

\* ---------------------------------------------------------------- variables

VARIABLES
    type,             \* self.type
    mac,              \* self.mac
    last_subscr_age,  \* ticks since self.__last_subscr_time, up to SubscrTicks
    pc,               \* the call stack: the code positions still to run, innermost first
    op,               \* the operation in progress (or the last one) and its arguments
    packet,           \* data of the Packet compiled last (optional)
    i_send,           \* Packet.send: passes of its loop made
    i_recv,           \* Packet.recv: passes of its loop made
    expect,           \* Packet.recv: expectResponseType (optional)
    recv_timeout,     \* Packet.recv: its timeout argument
    response,         \* Packet.recv: the packet it returns (optional)
    res,              \* Packet.recv_all: res
    sub_state,        \* what __subscribe returned in this operation
    elapsed,          \* learn: ticks since start_time, up to timeout + 1
    ret,              \* what the last operation returned or raised
    sock_open,        \* the socket of the operation is open
    inbox,            \* datagrams waiting in the socket's receive buffer
    dev_power,        \* the device's power state, 0 or 1
    h_frames,         \* history: the command codes of the frames this operation sent
    h_sub_age,        \* history: ticks since a Subscribe frame was last sent
    h_gap,            \* history: h_sub_age when the last handshake sent its first frame
    h_subscribed,     \* history: the session began a handshake before
    h_first_slept,    \* history: the session's first handshake slept
    h_clean,          \* history: only setPower(True) calls so far, each request answered
    h_calls,          \* history: operations finished, up to CountCap
    h_ctl,            \* history: Control frames sent since Init, up to CountCap
    h_learned,        \* history: the frame learn returned its signal from, with the signal
    devices,          \* discover: the dictionary devices
    indx,             \* discover: passes of its loop made
    h_replies,        \* history: the packets the scan received, in order
    h_args,           \* history: the arguments of the last Packet.compile call
    h_seen,           \* history: what recvfrom returned during a Packet.recv called alone
    h_sub_resps,      \* history: the SubscribeResponses recvfrom returned during
                      \* subscribe(), the latest CountCap of them, in order
    h_sent,           \* history: sendto calls made during a Packet.send called alone
    socket,           \* self.__socket: "None", or "open" for the socket it holds
    h_kc_ok           \* history: the __subscribe made on the held socket returned a state

vars == <<type, mac, last_subscr_age, pc, op, packet, i_send, i_recv, expect,
          recv_timeout, response, res, sub_state, elapsed, ret, sock_open, inbox,
          dev_power, h_frames, h_sub_age, h_gap, h_subscribed, h_first_slept, h_clean,
          h_calls, h_ctl, h_learned, devices, indx, h_replies, h_args, h_seen,
          h_sub_resps, h_sent, socket, h_kc_ok>>

\* What the scan of discover keeps, what keep_connection keeps, and what a
\* session is.
scan == <<devices, indx, h_replies>>
kept == <<socket, h_kc_ok>>
self == <<type, mac>>

\* What the operations of a session leave as it is.
sess == <<self, scan, h_args, h_seen, h_sub_resps, h_sent, kept>>

\* The arguments of an operation, one shape for all of them.
Op(name, on, timeout, arg) ==
    [name |-> name, on |-> on, timeout |-> timeout, arg |-> arg]

NoOp == Op("none", FALSE, 0, PyNone)

\* devices = {}
NoDevices == [a \in {} |-> <<>>]

Idle == pc = <<>>

\* An operation has returned or raised; ret is its outcome.
Done == pc = <<"done">>

At(label) == pc # <<>> /\ Head(pc) = label

\* ------------------------------------------------------------------ frames

Datagram(ip, data) == [ip |-> ip, data |-> data]

\* The frames the session compiles.
SubscribeFrame ==
    Compile(<<SUBSCRIBE, mac, SPACES_6, reverse_bytes(mac), SPACES_6>>)

ControlFrame(state) == Compile(<<CONTROL, mac, SPACES_6, ZEROS_4, state>>)

LearnFrame == Compile(<<LEARN_IR, mac, SPACES_6, <<1, 0>>, ZEROS_4>>)

BlastFrame(pid, signal) ==
    Compile(<<BLAST_IR, mac, SPACES_6, <<101, 0, 0, 0>>, pid, signal>>)

Rf433Frame(on, key, pid) ==
    Compile(<<BLAST_RF433, mac, SPACES_6, Slice(key, 0, 4), pid,
              IF on THEN <<1>> ELSE <<0>>, <<41, 0>>, SliceFrom(key, 4)>>)

\* ------------------------------------------------------------------ device

\* What the device at IP answers.  Its frames carry its own hardware id; the
\* last byte of a subscribe or control answer is its power state.
SubscribeResp(power) ==
    Datagram(IP, Compile(<<SUBSCRIBE_RESP, DEV_MAC, SPACES_6, <<0, 0, 0, 0, 0>>, <<power>>>>))

ControlResp(power) ==
    Datagram(IP, Compile(<<CONTROL_RESP, DEV_MAC, SPACES_6, ZEROS_4, <<power>>>>))

SocketEvent(power) ==
    Datagram(IP, Compile(<<SOCKET_EVENT, DEV_MAC, SPACES_6, ZEROS_4, <<power>>>>))

\* The answer to LearnFrame: a frame of 24 bytes, length field 0x0018.
LearnAck ==
    Datagram(IP, Compile(<<LEARN_IR_RESP, DEV_MAC, SPACES_6, <<1, 0, 0, 0, 0, 0>>>>))

BlastAck == Datagram(IP, Compile(<<BLAST_IR, DEV_MAC, SPACES_6, <<0>>>>))

\* A frame is for the device when it names the device's hardware id.
Addressed(frame) == Slice(frame, 6, 12) = DEV_MAC

\* A Control frame proper: CONTROL, id, spaces, four zeros, the state byte.
IsPowerFrame(frame) ==
    /\ Slice(frame, 4, 6) = CONTROL
    /\ Len(frame) = 23
    /\ Addressed(frame)

\* The device's power state once it has seen frame.
DevicePower(frame) ==
    IF IsPowerFrame(frame) THEN frame[Len(frame)] ELSE dev_power

\* The device's answer to frame (optional).
DeviceReply(frame) ==
    LET c == Slice(frame, 4, 6) IN
    IF ~Addressed(frame) THEN None
    ELSE IF c = SUBSCRIBE THEN Some(SubscribeResp(dev_power))
    ELSE IF c = CONTROL THEN Some(ControlResp(DevicePower(frame)))
    ELSE IF c = LEARN_IR THEN Some(LearnAck)
    ELSE IF c = BLAST_IR THEN Some(BlastAck)
    ELSE None

\* ------------------------------------------------------- claim bookkeeping

\* The run the idempotence claim is about: only setPower(True) calls on a
\* Socket session whose device started off, every request answered.  Outside
\* such a run the two counters are kept at 0.
Monitor(clean, calls, ctl) ==
    /\ h_clean' = clean
    /\ h_calls' = IF clean THEN Min(calls, CountCap) ELSE 0
    /\ h_ctl' = IF clean THEN Min(ctl, CountCap) ELSE 0

Unclean == Monitor(FALSE, 0, 0)

\* Time passes: n ticks on every timer.
InWait == pc # <<>> /\ pc[Len(pc)] \in {"lrn_wait", "lrn_got"}

Pass(n) ==
    /\ last_subscr_age' = Later(last_subscr_age, n, SubscrTicks)
    /\ h_sub_age' = Later(h_sub_age, n, SubscrTicks)
    /\ elapsed' = IF InWait THEN Later(elapsed, n, op.timeout + 1) ELSE elapsed

\* --------------------------------------------------------------- transport

\* sock.sendto(frame): the device sees the frame and answers, or the answer
\* is lost on the way.
Transmit(frame) ==
    LET c == Slice(frame, 4, 6) IN
    \E answered \in BOOLEAN :
        /\ dev_power' = DevicePower(frame)
        /\ inbox' = IF answered /\ DeviceReply(frame) # None
                    THEN Append(inbox, DeviceReply(frame)[1])
                    ELSE inbox
        /\ h_frames' = h_frames \cup {c}
        /\ h_sub_age' = IF c = SUBSCRIBE THEN 0 ELSE h_sub_age
        /\ h_gap' = IF c = SUBSCRIBE /\ SUBSCRIBE \notin h_frames THEN h_sub_age ELSE h_gap
        /\ Monitor(h_clean /\ answered, h_calls, IF c = CONTROL THEN h_ctl + 1 ELSE h_ctl)

\* An exception leaves the operation: the code after the yield of
\* _orvibo_socket does not run, the socket stays open.
Raise(e) ==
    /\ pc' = <<"done">>
    /\ ret' = PyRaise(e)
    /\ i_send' = 0
    /\ i_recv' = 0
    /\ expect' = None
    /\ recv_timeout' = 0
    /\ response' = None
    /\ elapsed' = 0
    /\ Unclean
    /\ UNCHANGED <<sess, last_subscr_age, op, packet, res, sub_state, sock_open,
                   inbox, dev_power, h_frames, h_sub_age, h_gap, h_subscribed,
                   h_first_slept, h_learned>>

\* for i in range(timeout): the timeout argument of Packet.send, which only
\* a call of Packet.send by itself passes.
SendPasses(o) == IF o.name = "send" THEN o.timeout ELSE SEND_TIMEOUT

\* Packet.send, one pass of its loop: select, then sendto, raise or break.
SendWritable ==
    /\ At("send")
    /\ Transmit(packet[1])
    /\ i_send' = i_send + 1
    /\ pc' = IF i_send + 1 < SendPasses(op) THEN pc ELSE Tail(pc)
    /\ h_sent' = IF op.name = "send" THEN h_sent + 1 ELSE h_sent
    /\ UNCHANGED <<self, scan, kept, h_args, h_seen, h_sub_resps, last_subscr_age, op, packet, i_recv, expect, recv_timeout,
                   response, res, sub_state, elapsed, ret, sock_open, h_subscribed,
                   h_first_slept, h_learned>>

SendError ==
    /\ At("send")
    /\ Raise("OrviboException")

SendNotWritable ==
    /\ At("send")
    /\ pc' = Tail(pc)
    /\ i_send' = i_send + 1
    /\ Pass(SelectTicks)
    /\ Unclean
    /\ UNCHANGED <<sess, op, packet, i_recv, expect, recv_timeout, response, res,
                   sub_state, ret, sock_open, inbox, dev_power, h_frames, h_gap,
                   h_subscribed, h_first_slept, h_learned>>

\* The last n entries of a log.
Latest(log, n) == IF Len(log) <= n THEN log ELSE SubSeq(log, Len(log) - n + 1, Len(log))

\* The mutation: no datagram is taken for a mismatch.
MismatchNever(e, data) == FALSE

\* expectResponseType is not None and data[4:6] != expectResponseType
Mismatch(e, data) == e # None /\ Slice(data, 4, 6) # e[1]

\* Packet.recv, one pass of its loop: select, then recvfrom, raise or break.
RecvReadable ==
    /\ At("recv")
    /\ inbox # <<>>
    /\ LET data == Slice(Head(inbox).data, 0, RECV_BUF)
           skip == Mismatch(expect, data)
       IN  /\ inbox' = Tail(inbox)
           /\ i_recv' = i_recv + 1
           /\ response' = IF skip THEN response ELSE Some(Datagram(Head(inbox).ip, data))
           /\ pc' = IF skip /\ i_recv + 1 < RECV_LOOPS THEN pc ELSE Tail(pc)
           /\ h_seen' = IF op.name = "recv"
                        THEN Append(h_seen, Datagram(Head(inbox).ip, data))
                        ELSE h_seen
           /\ h_sub_resps' = IF op.name = "subscribe" /\ SubSeq(data, 5, 6) = SUBSCRIBE_RESP
                             THEN Latest(Append(h_sub_resps, data), CountCap)
                             ELSE h_sub_resps
    /\ UNCHANGED <<h_sent, kept, self, scan, h_args, last_subscr_age, op, packet, i_send, expect, recv_timeout,
                   res, sub_state, elapsed, ret, sock_open, dev_power, h_frames,
                   h_sub_age, h_gap, h_subscribed, h_first_slept, h_clean, h_calls,
                   h_ctl, h_learned>>

RecvError ==
    /\ At("recv")
    /\ Raise("OrviboException")

RecvNothing ==
    /\ At("recv")
    /\ inbox = <<>>
    /\ i_recv' = i_recv + 1
    /\ pc' = Tail(pc)
    /\ Pass(SelectTicks)
    /\ UNCHANGED <<sess, op, packet, i_send, expect, recv_timeout, response, res,
                   sub_state, ret, sock_open, inbox, dev_power, h_frames, h_gap,
                   h_subscribed, h_first_slept, h_clean, h_calls, h_ctl, h_learned>>

\* The stack that runs Packet.recv(sock, e, t) and then rest.
CallRecv(e, t, rest) ==
    /\ pc' = <<"recv">> \o rest
    /\ i_recv' = 0
    /\ expect' = e
    /\ recv_timeout' = t
    /\ response' = None

\* The stack that runs Packet.send(sock) on the packet compiled from data,
\* and then rest.
CallSend(data, rest) ==
    /\ packet' = Some(data)
    /\ pc' = <<"send">> \o rest
    /\ i_send' = 0

\* Packet.recv_all after a recv: None ends it, a packet is kept and recv runs again.
RecvAllGot ==
    /\ At("recv_all_got")
    /\ IF response = None
       THEN /\ pc' = Tail(pc)
            /\ UNCHANGED <<res, i_recv, expect, recv_timeout, response>>
       ELSE /\ res' = response
            /\ CallRecv(expect, recv_timeout, pc)
    /\ UNCHANGED <<sess, last_subscr_age, op, packet, i_send, sub_state, elapsed,
                   ret, sock_open, inbox, dev_power, h_frames, h_sub_age, h_gap,
                   h_subscribed, h_first_slept, h_clean, h_calls, h_ctl, h_learned>>

\* The stack that runs Packet.recv_all(sock, e) and then rest.
CallRecvAll(e, rest) ==
    /\ res' = None
    /\ CallRecv(e, RECV_TIMEOUT, <<"recv_all_got">> \o rest)

\* ------------------------------------------------------ session operations

\* An operation begins: _orvibo_socket() creates its socket.
Begin(o) ==
    /\ Idle
    /\ op' = o
    /\ sock_open' = TRUE
    /\ inbox' = <<>>
    /\ h_frames' = {}
    /\ sub_state' = PyNone
    /\ res' = None
    /\ ret' = PyNone
    /\ h_gap' = SubscrTicks

\* An operation returns v: the with block ends and closes the socket.
Return(v) ==
    /\ pc' = <<"done">>
    /\ ret' = v
    /\ sock_open' = FALSE
    /\ inbox' = <<>>
    /\ i_send' = 0
    /\ i_recv' = 0
    /\ expect' = None
    /\ recv_timeout' = 0
    /\ response' = None
    /\ elapsed' = 0
    /\ Monitor(h_clean, h_calls + 1, h_ctl)

\* __subscribe, to its send: the sleep when the last subscription is younger
\* than 0.1 s, then the Subscribe frame.
SubEnter ==
    /\ At("sub_enter")
    /\ IF last_subscr_age < SubscrTicks
       THEN /\ Pass(SleepTicks)
            /\ h_first_slept' = (h_first_slept \/ ~h_subscribed)
       ELSE UNCHANGED <<last_subscr_age, h_sub_age, elapsed, h_first_slept>>
    /\ h_subscribed' = TRUE
    /\ CallSend(SubscribeFrame, <<"sub_sent">> \o Tail(pc))
    /\ UNCHANGED <<sess, op, i_recv, expect, recv_timeout, response, res, sub_state,
                   ret, sock_open, inbox, dev_power, h_frames, h_gap, h_clean, h_calls,
                   h_ctl, h_learned>>

\* __subscribe: recv_all(s, SUBSCRIBE_RESP)
SubSent ==
    /\ At("sub_sent")
    /\ CallRecvAll(Some(SUBSCRIBE_RESP), <<"sub_recvd">> \o Tail(pc))
    /\ UNCHANGED <<sess, last_subscr_age, op, packet, i_send, sub_state, elapsed,
                   ret, sock_open, inbox, dev_power, h_frames, h_sub_age, h_gap,
                   h_subscribed, h_first_slept, h_clean, h_calls, h_ctl, h_learned>>

\* The mutation: the first byte of the response.
SubscribeResultFirstByte(r) ==
    IF r = None THEN PyNone ELSE PyInt(r[1].data[1])

\* response.data[-1] if response is not None else None: indexing bytes gives an int.
SubscribeResult(r) ==
    IF r = None THEN PyNone ELSE PyInt(r[1].data[Len(r[1].data)])

\* __subscribe: the time stamp and the return.
SubRecvd ==
    /\ At("sub_recvd")
    /\ last_subscr_age' = 0
    /\ sub_state' = SubscribeResult(res)
    /\ pc' = Tail(pc)
    /\ UNCHANGED <<sess, op, packet, i_send, i_recv, expect, recv_timeout, response,
                   res, elapsed, ret, sock_open, inbox, dev_power, h_frames, h_sub_age,
                   h_gap, h_subscribed, h_first_slept, h_clean, h_calls, h_ctl, h_learned>>

\* subscribe()
CallSubscribe ==
    /\ Begin(Op("subscribe", FALSE, 0, PyNone))
    /\ pc' = <<"sub_enter", "pub_sub_done">>
    /\ Unclean
    /\ packet' = None
    /\ h_learned' = None
    /\ h_sub_resps' = <<>>
    /\ UNCHANGED <<self, scan, h_args, h_seen, h_sent, kept, last_subscr_age, i_send, i_recv, expect,
                   recv_timeout, response, elapsed, dev_power, h_sub_age,
                   h_subscribed, h_first_slept>>

PubSubDone ==
    /\ At("pub_sub_done")
    /\ Return(sub_state)
    /\ UNCHANGED <<sess, last_subscr_age, op, packet, res, sub_state, dev_power,
                   h_frames, h_sub_age, h_gap, h_subscribed, h_first_slept, h_learned>>

\* The property keep_connection: self.__socket is not None.
keep_connection == socket # "None"

\* close(): the held socket, if there is one, is closed and let go.
CallClose ==
    /\ Idle
    /\ op' = Op("close", FALSE, 0, PyNone)
    /\ socket' = "None"
    /\ sock_open' = FALSE
    /\ h_kc_ok' = FALSE
    /\ inbox' = <<>>
    /\ pc' = <<"done">>
    /\ ret' = PyNone
    /\ UNCHANGED <<self, scan, h_args, h_seen, h_sub_resps, h_sent, last_subscr_age,
                   packet, i_send, i_recv, expect, recv_timeout, response, res,
                   sub_state, elapsed, dev_power, h_frames, h_sub_age, h_gap,
                   h_subscribed, h_first_slept, h_clean, h_calls, h_ctl, h_learned>>

\* keep_connection = value: close(); then for a true value a new socket is
\* held and __subscribe runs on it, for a false one close() once more.
CallSetKeepConnection ==
    \E value \in BOOLEAN :
        /\ Begin(Op("keep_connection", value, 0, PyNone))
        /\ h_kc_ok' = FALSE
        /\ packet' = None
        /\ Unclean
        /\ h_learned' = None
        /\ IF value
           THEN /\ socket' = "open"
                /\ pc' = <<"sub_enter", "kc_subscribed">>
           ELSE /\ socket' = "None"
                /\ pc' = <<"kc_closed">>
        /\ UNCHANGED <<self, scan, h_args, h_seen, h_sub_resps, h_sent, last_subscr_age,
                       i_send, i_recv, expect, recv_timeout, response, elapsed,
                       dev_power, h_sub_age, h_subscribed, h_first_slept>>

\* keep_connection = False: nothing is held after the two close() calls.
KcClosed ==
    /\ At("kc_closed")
    /\ Return(PyNone)
    /\ UNCHANGED <<sess, last_subscr_age, op, packet, res, sub_state, dev_power,
                   h_frames, h_sub_age, h_gap, h_subscribed, h_first_slept, h_learned>>

\* keep_connection = True after its __subscribe: None raises
\* OrviboException('Connection subscription error.'), the socket staying in
\* self.__socket; else the setter returns.
KcSubscribed ==
    /\ At("kc_subscribed")
    /\ pc' = <<"done">>
    /\ IF sub_state = PyNone
       THEN /\ ret' = PyRaise("OrviboException")
            /\ UNCHANGED h_kc_ok
       ELSE /\ ret' = PyNone
            /\ h_kc_ok' = TRUE
    /\ UNCHANGED <<self, scan, h_args, h_seen, h_sub_resps, h_sent, socket,
                   last_subscr_age, op, packet, i_send, i_recv, expect, recv_timeout,
                   response, res, sub_state, elapsed, sock_open, inbox, dev_power,
                   h_frames, h_sub_age, h_gap, h_subscribed, h_first_slept, h_clean,
                   h_calls, h_ctl, h_learned>>

\* __control_s20(switchOn), the setter of the property on
CallSetPower ==
    \E switchOn \in BOOLEAN :
        /\ Begin(Op("control", switchOn, 0, PyNone))
        /\ pc' = <<"sub_enter", "ctl_subscribed">>
        /\ h_learned' = None
        /\ packet' = None
        /\ Monitor(h_clean /\ switchOn /\ h_calls < CountCap, h_calls, h_ctl)
        /\ UNCHANGED <<sess, last_subscr_age, i_send, i_recv, expect,
                       recv_timeout, response, elapsed, dev_power, h_sub_age,
                       h_subscribed, h_first_slept>>

\* curr_state == state
StateMatches(curr_state, state) == PyEq(curr_state, PyBytes(state))

\* __control_s20 after its subscribe: the three refusals, or the Control frame.
CtlSubscribed ==
    /\ At("ctl_subscribed")
    /\ LET state == IF op.on THEN ON ELSE OFF IN
       IF \/ type # TYPE_SOCKET
          \/ sub_state = PyNone
          \/ StateMatches(sub_state, state)
       THEN /\ Return(PyBool(FALSE))
            /\ UNCHANGED <<packet>>
       ELSE /\ CallSend(ControlFrame(state), <<"ctl_sent">>)
            /\ UNCHANGED <<i_recv, expect, recv_timeout, response, elapsed, ret,
                           sock_open, inbox, h_clean, h_calls, h_ctl>>
    /\ UNCHANGED <<sess, last_subscr_age, op, res, sub_state, dev_power, h_frames,
                   h_sub_age, h_gap, h_subscribed, h_first_slept, h_learned>>

CtlSent ==
    /\ At("ctl_sent")
    /\ CallRecv(Some(CONTROL_RESP), RECV_TIMEOUT, <<"ctl_recvd">>)
    /\ UNCHANGED <<sess, last_subscr_age, op, packet, i_send, res, sub_state,
                   elapsed, ret, sock_open, inbox, dev_power, h_frames, h_sub_age, h_gap,
                   h_subscribed, h_first_slept, h_clean, h_calls, h_ctl, h_learned>>

CtlRecvd ==
    /\ At("ctl_recvd")
    /\ Return(PyBool(response # None))
    /\ UNCHANGED <<sess, last_subscr_age, op, packet, res, sub_state, dev_power,
                   h_frames, h_sub_age, h_gap, h_subscribed, h_first_slept, h_learned>>

\* ------------------------------------------------------ infrared and RF433

\* LEARN_IR responses with such length will be skipped
EMPTY_LEARN_IR == <<0, 24>>

\* s.find(sub): the least offset where sub starts in s, or -1.
Find(s, sub) ==
    LET hits == {i \in 0..(Len(s) - Len(sub)) : SubSeq(s, i + 1, i + Len(sub)) = sub}
    IN  IF hits = {} THEN -1 ELSE CHOOSE i \in hits : \A j \in hits : i <= j

\* The mutation: the split is made at the last occurrence (rsplit).
RFind(s, sub) ==
    LET hits == {i \in 0..(Len(s) - Len(sub)) : SubSeq(s, i + 1, i + Len(sub)) = sub}
    IN  IF hits = {} THEN -1 ELSE CHOOSE i \in hits : \A j \in hits : i >= j

SplitOnceLast(s, sep) ==
    IF RFind(s, sep) = -1 THEN <<s>>
    ELSE <<Slice(s, 0, RFind(s, sep)), SliceFrom(s, RFind(s, sep) + Len(sep))>>

\* s.split(sep, 1): one piece when sep is not in s, else the two around its
\* first occurrence.
SplitOnce(s, sep) ==
    IF Find(s, sep) = -1 THEN <<s>>
    ELSE <<Slice(s, 0, Find(s, sep)), SliceFrom(s, Find(s, sep) + Len(sep))>>

\* signal_split of learn, and the signal it returns when there are two pieces.
SignalSplit(data) == SplitOnce(data, mac \o SPACES_6)

LearnedSignal(data) == SliceFrom(SignalSplit(data)[2], 6)

\* The frames the device reports a captured signal with, and frames like them.
SignalFrame(m, skip, sig) ==
    Datagram(IP, Compile(<<LEARN_IR, m, SPACES_6, skip, sig>>))

LearnArrivals ==
    { SignalFrame(DEV_MAC, <<1, 2, 3, 4, 5, 6>>, <<9, 8, 7>>),
      SignalFrame(DEV_MAC, <<1, 2, 3, 4, 5, 6>>, <<5>> \o DEV_MAC \o SPACES_6 \o <<6>>),
      SignalFrame(DEV_MAC, <<1, 2>>, <<>>),
      SignalFrame(OTHER_MAC, <<1, 2, 3, 4, 5, 6>>, <<9, 8, 7>>),
      LearnAck,
      SocketEvent(dev_power) }

\* The name of the one file, "s.ir".
FNAME == <<115, 46, 105, 114>>

\* learn(fname, timeout): the file named by fname only receives a copy of the
\* signal returned and is not kept here.
CallLearn ==
    \E t \in 0..MaxLearnTimeout :
        /\ Begin(Op("learn", FALSE, t, PyNone))
        /\ pc' = <<"sub_enter", "lrn_subscribed">>
        /\ Unclean
        /\ packet' = None
        /\ h_learned' = None
        /\ UNCHANGED <<sess, last_subscr_age, i_send, i_recv, expect,
                       recv_timeout, response, elapsed, dev_power, h_sub_age,
                       h_subscribed, h_first_slept>>

\* learn_ir(fname, timeout): self.learn(self, fname, timeout) passes the bound
\* method one argument more than learn takes, and the call raises TypeError
\* before learn runs.
CallLearnIr ==
    \E t \in 0..MaxLearnTimeout :
        /\ Idle
        /\ op' = Op("learn_ir", FALSE, t, PyNone)
        /\ pc' = <<"done">>
        /\ ret' = PyRaise("TypeError")
        /\ packet' = None
        /\ Unclean
        /\ h_learned' = None
        /\ UNCHANGED <<sess, last_subscr_age, i_send, i_recv, expect, recv_timeout,
                       response, res, sub_state, elapsed, sock_open, inbox, dev_power,
                       h_frames, h_sub_age, h_gap, h_subscribed, h_first_slept>>

\* learn after its subscribe: the two refusals, or the LearnIR frame.
LrnSubscribed ==
    /\ At("lrn_subscribed")
    /\ IF sub_state = PyNone \/ type # TYPE_IRDA
       THEN /\ Return(PyNone)
            /\ UNCHANGED <<packet>>
       ELSE /\ CallSend(LearnFrame, <<"lrn_sent">>)
            /\ UNCHANGED <<i_recv, expect, recv_timeout, response, elapsed, ret,
                           sock_open, inbox, h_clean, h_calls, h_ctl>>
    /\ UNCHANGED <<sess, last_subscr_age, op, res, sub_state, dev_power, h_frames,
                   h_sub_age, h_gap, h_subscribed, h_first_slept, h_learned>>

LrnSent ==
    /\ At("lrn_sent")
    /\ CallRecv(Some(LEARN_IR_RESP), RECV_TIMEOUT, <<"lrn_entered">>)
    /\ UNCHANGED <<sess, last_subscr_age, op, packet, i_send, res, sub_state,
                   elapsed, ret, sock_open, inbox, dev_power, h_frames, h_sub_age, h_gap,
                   h_subscribed, h_first_slept, h_clean, h_calls, h_ctl, h_learned>>

\* learn: no answer to the LearnIR frame ends it; else start_time is taken.
LrnEntered ==
    /\ At("lrn_entered")
    /\ IF response = None
       THEN Return(PyNone)
       ELSE /\ pc' = <<"lrn_wait">>
            /\ elapsed' = 0
            /\ UNCHANGED <<i_send, i_recv, expect, recv_timeout, response, ret,
                           sock_open, inbox, h_clean, h_calls, h_ctl>>
    /\ UNCHANGED <<sess, last_subscr_age, op, packet, res, sub_state, dev_power,
                   h_frames, h_sub_age, h_gap, h_subscribed, h_first_slept, h_learned>>

\* learn, the top of its loop: the deadline, else recv(s, timeout = 1).
LrnWait ==
    /\ At("lrn_wait")
    /\ IF elapsed > op.timeout
       THEN /\ Return(PyNone)
       ELSE /\ CallRecv(None, 1, <<"lrn_got">>)
            /\ UNCHANGED <<i_send, elapsed, ret, sock_open, inbox, h_clean, h_calls, h_ctl>>
    /\ UNCHANGED <<sess, last_subscr_age, op, packet, res, sub_state, dev_power,
                   h_frames, h_sub_age, h_gap, h_subscribed, h_first_slept, h_learned>>

\* The mutation: the length of the packet is not looked at.
IsSignalPacketAnyLength(r) ==
    /\ r # None
    /\ PacketCmd(Some(r[1].data)) = LEARN_IR

\* The packet ends the loop of learn: it is there, its length is not the
\* empty one, its command is LEARN_IR.
IsSignalPacket(r) ==
    /\ r # None
    /\ PacketLength(Some(r[1].data)) # EMPTY_LEARN_IR
    /\ PacketCmd(Some(r[1].data)) = LEARN_IR

\* learn: nothing received, an empty capture or another command: the loop goes on.
LrnSkip ==
    /\ At("lrn_got")
    /\ ~IsSignalPacket(response)
    /\ pc' = <<"lrn_wait">>
    /\ UNCHANGED <<sess, last_subscr_age, op, packet, i_send, i_recv, expect,
                   recv_timeout, response, res, sub_state, elapsed, ret, sock_open,
                   inbox, dev_power, h_frames, h_sub_age, h_gap, h_subscribed,
                   h_first_slept, h_clean, h_calls, h_ctl, h_learned>>

\* learn: the signal is cut out of the packet and returned.
LrnSignal ==
    /\ At("lrn_got")
    /\ IsSignalPacket(response)
    /\ Len(SignalSplit(response[1].data)) = 2
    /\ Return(PyBytes(LearnedSignal(response[1].data)))
    /\ h_learned' = Some([frame |-> response[1].data,
                          signal |-> LearnedSignal(response[1].data)])
    /\ UNCHANGED <<sess, last_subscr_age, op, packet, res, sub_state, dev_power,
                   h_frames, h_sub_age, h_gap, h_subscribed, h_first_slept>>

\* learn: signal_split[1] of a packet without the marker raises IndexError.
LrnNoMarker ==
    /\ At("lrn_got")
    /\ IsSignalPacket(response)
    /\ Len(SignalSplit(response[1].data)) = 1
    /\ Raise("IndexError")

\* The signal arguments of emit_ir: raw bytes, the signal learn returned last,
\* or the name of a file.
EmitArgs ==
    {PyBytes(sg) : sg \in Signals}
        \cup {PyBytes(l.signal) : l \in {h_learned[i] : i \in 1..Len(h_learned)}}
        \cup {PyStr(FNAME)}

\* emit_ir(signal)
CallEmitIr ==
    \E sg \in EmitArgs :
        /\ Begin(Op("emit_ir", FALSE, 0, sg))
        /\ pc' = <<"sub_enter", "emt_subscribed">>
        /\ Unclean
        /\ packet' = None
        /\ h_learned' = IF h_learned # None /\ sg = PyBytes(h_learned[1].signal)
                        THEN h_learned ELSE None
        /\ UNCHANGED <<sess, last_subscr_age, i_send, i_recv, expect,
                       recv_timeout, response, elapsed, dev_power, h_sub_age,
                       h_subscribed, h_first_slept>>

EmtCanSend == sub_state # PyNone /\ type = TYPE_IRDA

\* emit_ir after its subscribe: the two refusals.
EmtRefused ==
    /\ At("emt_subscribed")
    /\ ~EmtCanSend
    /\ Return(PyBool(FALSE))
    /\ UNCHANGED <<sess, last_subscr_age, op, packet, res, sub_state, dev_power,
                   h_frames, h_sub_age, h_gap, h_subscribed, h_first_slept, h_learned>>

\* emit_ir: a str signal names a file; open raises when it is not there.
EmtNoFile ==
    /\ At("emt_subscribed")
    /\ EmtCanSend
    /\ op.arg.t = "str"
    /\ Raise("FileNotFoundError")

\* emit_ir: the BlastIR frame, of the signal given or of the file's content.
EmtBlast ==
    /\ At("emt_subscribed")
    /\ EmtCanSend
    /\ \E pid \in packet_id :
       \E content \in (IF op.arg.t = "str" THEN Signals ELSE {op.arg.v}) :
           CallSend(BlastFrame(pid, content), <<"emt_sent">>)
    /\ UNCHANGED <<sess, last_subscr_age, op, i_recv, expect, recv_timeout, response,
                   res, sub_state, elapsed, ret, sock_open, inbox, dev_power, h_frames,
                   h_sub_age, h_gap, h_subscribed, h_first_slept, h_clean, h_calls,
                   h_ctl, h_learned>>

\* emit_ir and _learn_emit_rf433: recv_all(s), any command
EmtSent ==
    /\ At("emt_sent") \/ At("rf_sent")
    /\ CallRecvAll(None, <<IF At("emt_sent") THEN "emt_recvd" ELSE "rf_recvd">>)
    /\ UNCHANGED <<sess, last_subscr_age, op, packet, i_send, sub_state, elapsed,
                   ret, sock_open, inbox, dev_power, h_frames, h_sub_age, h_gap,
                   h_subscribed, h_first_slept, h_clean, h_calls, h_ctl, h_learned>>

\* return True
EmitResult == PyBool(TRUE)

EmtRecvd ==
    /\ At("emt_recvd")
    /\ Return(EmitResult)
    /\ UNCHANGED <<sess, last_subscr_age, op, packet, res, sub_state, dev_power,
                   h_frames, h_sub_age, h_gap, h_subscribed, h_first_slept, h_learned>>

\* learn_rf433(fname): a random key, sent by _learn_emit_rf433(1, key).
CallLearnRf433 ==
    \E key \in random_n_bytes(7) : \E pid \in packet_id :
        /\ Begin(Op("learn_rf433", TRUE, 0, PyBytes(key)))
        /\ CallSend(Rf433Frame(TRUE, key, pid), <<"rf_sent">>)
        /\ Unclean
        /\ h_learned' = None
        /\ UNCHANGED <<sess, last_subscr_age, i_recv, expect, recv_timeout,
                       response, elapsed, dev_power, h_sub_age, h_subscribed,
                       h_first_slept>>

\* emit_rf433(on, fname): the key is the content of the file.
CallEmitRf433 ==
    \E on \in BOOLEAN : \E key \in random_n_bytes(7) \cup {<<>>} : \E pid \in packet_id :
        /\ Begin(Op("emit_rf433", on, 0, PyBytes(key)))
        /\ CallSend(Rf433Frame(on, key, pid), <<"rf_sent">>)
        /\ Unclean
        /\ h_learned' = None
        /\ UNCHANGED <<sess, last_subscr_age, i_recv, expect, recv_timeout,
                       response, elapsed, dev_power, h_sub_age, h_subscribed,
                       h_first_slept>>

\* emit_rf433(on, fname) with no file of that name: open raises before any socket.
EmitRf433NoFile ==
    \E on \in BOOLEAN :
        /\ Idle
        /\ op' = Op("emit_rf433", on, 0, PyStr(FNAME))
        /\ pc' = <<"done">>
        /\ ret' = PyRaise("FileNotFoundError")
        /\ packet' = None
        /\ Unclean
        /\ h_learned' = None
        /\ UNCHANGED <<sess, last_subscr_age, i_send, i_recv, expect, recv_timeout,
                       response, res, sub_state, elapsed, sock_open, inbox, dev_power,
                       h_frames, h_sub_age, h_gap, h_subscribed, h_first_slept>>

\* _learn_emit_rf433 returns; learn_rf433 then returns the key.
RfRecvd ==
    /\ At("rf_recvd")
    /\ Return(IF op.name = "learn_rf433" THEN op.arg ELSE PyNone)
    /\ UNCHANGED <<sess, last_subscr_age, op, packet, res, sub_state, dev_power,
                   h_frames, h_sub_age, h_gap, h_subscribed, h_first_slept, h_learned>>

\* ---------------------------------------------------------------- discovery

SOC == <<83, 79, 67>>
IRD == <<73, 82, 68>>

\* _parse_discover_response(response): the type is None when neither name is there.
ParseDiscoverResponse(resp) ==
    [type |-> IF Find(resp, SOC) # -1 THEN TYPE_SOCKET
              ELSE IF Find(resp, IRD) # -1 THEN TYPE_IRDA
              ELSE "None",
     mac |-> Slice(resp, Len(MAGIC \o DISCOVER_RESP) + 2 + 1,
                   Len(MAGIC \o DISCOVER_RESP) + 2 + 1 + 6)]

\* What a device at address a answers to a Discover frame.
DiscoverResp(a, m, cls) ==
    Datagram(a, Compile(<<DISCOVER_RESP, <<0>>, m, SPACES_6, reverse_bytes(m), SPACES_6, cls>>))

\* A Discover frame itself, as any client at a broadcasts it: no hardware id.
DiscoverEcho(a) == Datagram(a, Compile(<<DISCOVER>>))

\* A reply cut off after n bytes.
CutShort(d, n) == Datagram(d.ip, Slice(d.data, 0, n))

\* What the socket of a scan may receive.
DiscoverArrivals ==
    { DiscoverResp(IP, DEV_MAC, SOC),
      DiscoverResp(IP, OTHER_MAC, IRD),
      DiscoverResp(IP, HEX_MAC, SOC),
      DiscoverResp(IP2, OTHER_MAC, IRD),
      CutShort(DiscoverResp(IP2, OTHER_MAC, IRD), 10),
      DiscoverEcho(IP),
      SocketEvent(dev_power) }

\* The mutation: an address already in the dictionary keeps its entry.
DevicesPutFirst(devs, ip, m, t) ==
    [a \in DOMAIN devs \cup {ip} |->
        IF a \in DOMAIN devs THEN devs[a] ELSE [ip |-> ip, mac |-> m, type |-> t]]

\* devices[p.ip] = (p.ip, orvibo_mac, orvibo_type)
DevicesPut(devs, ip, m, t) ==
    [a \in DOMAIN devs \cup {ip} |->
        IF a = ip THEN [ip |-> ip, mac |-> m, type |-> t] ELSE devs[a]]

\* Orvibo.discover(ip): the socket, the Discover frame.
CallDiscoverFor(a) ==
    /\ Begin(Op("discover", FALSE, 0, a))
    /\ devices' = NoDevices
    /\ indx' = 0
    /\ h_replies' = <<>>
    /\ CallSend(Compile(<<DISCOVER>>), <<"dsc_sent">>)
    /\ Unclean
    /\ h_learned' = None
    /\ UNCHANGED <<type, mac, h_args, h_seen, h_sub_resps, h_sent, kept, last_subscr_age, i_recv, expect,
                   recv_timeout, response, elapsed, dev_power, h_sub_age,
                   h_subscribed, h_first_slept>>

CallDiscover == \E a \in {PyNone, PyStr(IP)} : CallDiscoverFor(a)

\* Orvibo.discover(): every device of the network is asked for.
CallDiscoverAll == CallDiscoverFor(PyNone)

\* discover: Packet.send has returned and its loop counter is gone; the
\* first pass of the loop, discover_packet.recv(s).
DscSent ==
    /\ At("dsc_sent")
    /\ CallRecv(None, RECV_TIMEOUT, <<"dsc_got">>)
    /\ i_send' = 0
    /\ UNCHANGED <<sess, last_subscr_age, op, packet, res, sub_state,
                   elapsed, ret, sock_open, inbox, dev_power, h_frames, h_sub_age, h_gap,
                   h_subscribed, h_first_slept, h_clean, h_calls, h_ctl, h_learned>>

\* The mutation: the loop counter stands still.
NextPassSame(i) == i

\* for indx in range(512): the pass after pass i, and whether there is a
\* pass numbered i.
NextPass(i) == i + 1

LoopGoesOn(i) == i < DISCOVER_LOOPS

\* discover: a packet came; a ghost is skipped, a device is entered; next pass.
DscGot ==
    /\ At("dsc_got")
    /\ response # None
    /\ LET p == response[1]
           parsed == ParseDiscoverResponse(p.data)
       IN  /\ h_replies' = Append(h_replies, p)
           /\ devices' = IF parsed.mac = <<>> THEN devices
                         ELSE DevicesPut(devices, p.ip, parsed.mac, parsed.type)
    /\ indx' = NextPass(indx)
    /\ IF LoopGoesOn(NextPass(indx))
       THEN CallRecv(None, RECV_TIMEOUT, <<"dsc_got">>)
       ELSE /\ pc' = <<"dsc_end">>
            /\ UNCHANGED <<i_recv, expect, recv_timeout, response>>
    /\ UNCHANGED <<type, mac, h_args, h_seen, h_sub_resps, h_sent, kept, last_subscr_age, op, packet, i_send, res,
                   sub_state, elapsed, ret, sock_open, inbox, dev_power, h_frames,
                   h_sub_age, h_gap, h_subscribed, h_first_slept, h_clean, h_calls,
                   h_ctl, h_learned>>

\* discover: no more packets in the socket.
DscBreak ==
    /\ At("dsc_got")
    /\ response = None
    /\ pc' = <<"dsc_end">>
    /\ UNCHANGED <<sess, last_subscr_age, op, packet, i_send, i_recv, expect,
                   recv_timeout, response, res, sub_state, elapsed, ret, sock_open,
                   inbox, dev_power, h_frames, h_sub_age, h_gap, h_subscribed,
                   h_first_slept, h_clean, h_calls, h_ctl, h_learned>>

\* The mutation: any device found stands for the one asked for.
LookupAny(devs, ip) ==
    IF DOMAIN devs = {} THEN None
    ELSE Some(devs[CHOOSE a \in DOMAIN devs : a # ip \/ DOMAIN devs = {ip}])

\* devices[ip] when ip is in devices.keys() (optional).
Lookup(devs, ip) ==
    IF ip \in DOMAIN devs THEN Some(devs[ip]) ELSE None

\* discover after its with block: the dictionary, the exception, or the
\* session Orvibo(*devices[ip]) that __init__ builds.
DscEnd ==
    /\ At("dsc_end")
    /\ IF op.arg = PyNone
       THEN /\ Return([t |-> "dict", v |-> <<>>])
            /\ UNCHANGED <<type, mac, last_subscr_age, h_sub_age, h_subscribed,
                           h_first_slept>>
       ELSE IF Lookup(devices, op.arg.v) = None
       THEN /\ Return(PyRaise("OrviboException"))
            /\ UNCHANGED <<type, mac, last_subscr_age, h_sub_age, h_subscribed,
                           h_first_slept>>
       ELSE /\ Return([t |-> "Orvibo", v |-> Lookup(devices, op.arg.v)[1].ip])
            /\ type' = Lookup(devices, op.arg.v)[1].type
            /\ mac' = InitMac(PyBytes(Lookup(devices, op.arg.v)[1].mac))
            /\ last_subscr_age' = SubscrTicks
            /\ h_sub_age' = SubscrTicks
            /\ h_subscribed' = FALSE
            /\ h_first_slept' = FALSE
    /\ UNCHANGED <<op, packet, res, sub_state, dev_power, h_frames, h_gap, h_learned,
                   devices, indx, h_replies, h_args, h_seen, h_sub_resps, h_sent, kept>>

\* ------------------------------------------------------- Packet, called alone

\* packet.recv(sock, e, t) on a socket of the caller's.
CallRecvDirect ==
    \E e \in {None, Some(SUBSCRIBE_RESP), Some(CONTROL_RESP)} :
    \E t \in (1..MaxRecvTimeout) \cup {RECV_TIMEOUT} :
        /\ Begin(Op("recv", FALSE, t, PyNone))
        /\ CallRecv(e, t, <<"recv_ret">>)
        /\ packet' = None
        /\ Unclean
        /\ h_learned' = None
        /\ h_seen' = <<>>
        /\ UNCHANGED <<self, scan, h_args, h_sub_resps, h_sent, kept, last_subscr_age, i_send, elapsed,
                       dev_power, h_sub_age, h_subscribed, h_first_slept>>

\* The timeout arguments of a Packet.send called alone: the small ones and
\* the default.
SendTimeouts == (0..MaxSendTimeout) \cup {SEND_TIMEOUT}

\* packet.send(sock, t) on a socket of the caller's, the packet compiled or
\* not: no data, or no pass to make, and send returns at once.
CallSendDirect ==
    \E d \in {None, Some(SubscribeFrame), Some(Compile(<<DISCOVER>>))} :
    \E t \in SendTimeouts :
        /\ Begin(Op("send", FALSE, t, PyNone))
        /\ IF d = None \/ t = 0
           THEN /\ packet' = d
                /\ pc' = <<"send_ret">>
                /\ i_send' = 0
           ELSE CallSend(d[1], <<"send_ret">>)
        /\ Unclean
        /\ h_learned' = None
        /\ h_sent' = 0
        /\ UNCHANGED <<self, scan, kept, h_args, h_seen, h_sub_resps, last_subscr_age, i_recv,
                       expect, recv_timeout, response, elapsed, dev_power, h_sub_age,
                       h_subscribed, h_first_slept>>

\* Packet.send has returned (it returns nothing).
SendReturned ==
    /\ At("send_ret")
    /\ pc' = <<"done">>
    /\ ret' = PyNone
    /\ UNCHANGED <<sess, last_subscr_age, op, packet, i_send, i_recv, expect,
                   recv_timeout, response, res, sub_state, elapsed, sock_open, inbox,
                   dev_power, h_frames, h_sub_age, h_gap, h_subscribed, h_first_slept,
                   h_clean, h_calls, h_ctl, h_learned>>

\* The caller has what recv returned: the data of a packet, or None.
RecvReturned ==
    /\ At("recv_ret")
    /\ pc' = <<"done">>
    /\ ret' = IF response = None THEN PyNone ELSE PyBytes(response[1].data)
    /\ UNCHANGED <<sess, last_subscr_age, op, packet, i_send, i_recv, expect,
                   recv_timeout, response, res, sub_state, elapsed, sock_open, inbox,
                   dev_power, h_frames, h_sub_age, h_gap, h_subscribed, h_first_slept,
                   h_clean, h_calls, h_ctl, h_learned>>

\* Packet().compile(cmd, p) on a new packet: self.data is set unless
\* struct.pack raises.
CallCompile ==
    /\ Idle
    /\ \E cmd \in CommandCodes : \E p \in Payloads :
        /\ h_args' = <<cmd, p>>
        /\ IF CompileRaises(<<cmd, p>>)
           THEN /\ packet' = None
                /\ ret' = PyRaise("struct.error")
           ELSE /\ packet' = Some(Compile(<<cmd, p>>))
                /\ ret' = PyNone
    /\ UNCHANGED <<type, mac, last_subscr_age, pc, op, i_send, i_recv, expect,
                   recv_timeout, response, res, sub_state, elapsed, sock_open, inbox,
                   dev_power, h_frames, h_sub_age, h_gap, h_subscribed, h_first_slept,
                   h_clean, h_calls, h_ctl, h_learned, devices, indx, h_replies, h_seen,
                   h_sub_resps, h_sent, kept>>

\* ------------------------------------------------------------- environment

\* What may arrive on the socket besides the answers to the frames sent.
Arrivals ==
    IF InWait THEN LearnArrivals
    ELSE IF op.name = "discover" THEN DiscoverArrivals
    ELSE IF op.name = "subscribe"
    THEN {SocketEvent(dev_power), SubscribeResp(0), SubscribeResp(1)}
    ELSE {SocketEvent(dev_power), SubscribeResp(dev_power)}

\* A datagram arrives while Packet.recv waits.
Arrive ==
    /\ At("recv")
    /\ Len(inbox) < MaxInbox
    /\ op.name = "discover" => Len(h_replies) + Len(inbox) < MaxReplies
    /\ \E d \in Arrivals : inbox' = Append(inbox, d)
    /\ Unclean
    /\ UNCHANGED <<sess, last_subscr_age, pc, op, packet, i_send, i_recv, expect,
                   recv_timeout, response, res, sub_state, elapsed, ret, sock_open,
                   dev_power, h_frames, h_sub_age, h_gap, h_subscribed, h_first_slept,
                   h_learned>>

\* Replies that never stop: whenever the scan waits with nothing in the
\* socket, the device at IP may answer once more.
ArriveFlood ==
    /\ At("recv")
    /\ op.name = "discover"
    /\ inbox = <<>>
    /\ inbox' = <<DiscoverResp(IP, DEV_MAC, SOC)>>
    /\ UNCHANGED <<sess, last_subscr_age, pc, op, packet, i_send, i_recv, expect,
                   recv_timeout, response, res, sub_state, elapsed, ret, sock_open,
                   dev_power, h_frames, h_sub_age, h_gap, h_subscribed, h_first_slept,
                   h_clean, h_calls, h_ctl, h_learned>>

\* The caller has the result of the operation; its locals are gone.
Forget ==
    /\ At("done")
    /\ pc' = <<>>
    /\ op' = NoOp
    /\ ret' = PyNone
    /\ packet' = None
    /\ res' = None
    /\ sub_state' = PyNone
    /\ h_frames' = {}
    /\ h_gap' = SubscrTicks
    /\ h_sub_resps' = <<>>
    /\ UNCHANGED <<self, scan, h_args, h_seen, h_sent, kept, last_subscr_age, i_send, i_recv, expect,
                   recv_timeout, response, elapsed, sock_open, inbox, dev_power,
                   h_sub_age, h_subscribed, h_first_slept, h_clean, h_calls, h_ctl,
                   h_learned>>

\* 50 ms pass between two operations, or while learn waits.
Tick ==
    /\ Idle \/ At("lrn_wait")
    /\ \/ last_subscr_age < SubscrTicks
       \/ h_sub_age < SubscrTicks
       \/ InWait /\ elapsed <= op.timeout
    /\ Pass(1)
    /\ UNCHANGED <<sess, pc, op, packet, i_send, i_recv, expect, recv_timeout,
                   response, res, sub_state, ret, sock_open, inbox, dev_power, h_frames,
                   h_gap, h_subscribed, h_first_slept, h_clean, h_calls, h_ctl, h_learned>>

\* ----------------------------------------------------------- specification

\* Orvibo(IP, mac, type) with the mac given: no discovery, no socket yet.
Init ==
    /\ type \in Types
    /\ mac \in {InitMac(m) : m \in MacArgs}
    /\ last_subscr_age = SubscrTicks
    /\ pc = <<>>
    /\ op = NoOp
    /\ packet = None
    /\ i_send = 0
    /\ i_recv = 0
    /\ expect = None
    /\ recv_timeout = 0
    /\ response = None
    /\ res = None
    /\ sub_state = PyNone
    /\ elapsed = 0
    /\ ret = PyNone
    /\ sock_open = FALSE
    /\ inbox = <<>>
    /\ dev_power \in {0, 1}
    /\ h_frames = {}
    /\ h_sub_age = SubscrTicks
    /\ h_gap = SubscrTicks
    /\ h_subscribed = FALSE
    /\ h_first_slept = FALSE
    /\ h_clean = (type = TYPE_SOCKET /\ dev_power = 0)
    /\ h_calls = 0
    /\ h_ctl = 0
    /\ h_learned = None
    /\ devices = NoDevices
    /\ indx = 0
    /\ h_replies = <<>>
    /\ h_args = <<>>
    /\ h_seen = <<>>
    /\ h_sub_resps = <<>>
    /\ h_sent = 0
    /\ socket = "None"
    /\ h_kc_ok = FALSE

\* Packet.recv, Packet.send and Packet.recv_all, as every operation runs them.
Receive ==
    \/ RecvReadable
    \/ RecvError
    \/ RecvNothing

SendReceive ==
    \/ SendWritable
    \/ SendError
    \/ SendNotWritable
    \/ Receive

Transport ==
    \/ SendReceive
    \/ RecvAllGot

\* __subscribe
Handshake ==
    \/ SubEnter
    \/ SubSent
    \/ SubRecvd

Environment ==
    \/ Arrive
    \/ Tick
    \/ Forget

\* subscribe() and the power switch: the calls, and the steps of their bodies
SocketCalls ==
    \/ CallSubscribe
    \/ CallSetPower

SocketSteps ==
    \/ PubSubDone
    \/ CtlSubscribed
    \/ CtlSent
    \/ CtlRecvd

SocketOps ==
    \/ SocketCalls
    \/ SocketSteps

\* learn, emit_ir, learn_rf433 and emit_rf433
InfraredOps ==
    \/ CallLearn
    \/ CallLearnIr
    \/ LrnSubscribed
    \/ LrnSent
    \/ LrnEntered
    \/ LrnWait
    \/ LrnSkip
    \/ LrnSignal
    \/ LrnNoMarker
    \/ CallEmitIr
    \/ EmtRefused
    \/ EmtNoFile
    \/ EmtBlast
    \/ EmtSent
    \/ EmtRecvd
    \/ CallLearnRf433
    \/ CallEmitRf433
    \/ EmitRf433NoFile
    \/ RfRecvd

\* A session used through subscribe() and the power switch.
Next ==
    \/ SocketOps
    \/ Handshake
    \/ Transport
    \/ Environment

Spec == Init /\ [][Next]_vars

\* A session used through the infrared and RF433 operations.
InitIR ==
    /\ Init
    /\ dev_power = 0

NextIR ==
    \/ InfraredOps
    \/ Handshake
    \/ Transport
    \/ Environment

SpecIR == InitIR /\ [][NextIR]_vars

\* No session yet: the static discover, and class Packet used alone.
InitStatic ==
    /\ Init
    /\ type = "Unknown"
    /\ dev_power = 0

\* Orvibo.discover
NextDiscover ==
    \/ CallDiscover
    \/ DscSent
    \/ DscGot
    \/ DscBreak
    \/ DscEnd
    \/ SendReceive
    \/ Arrive
    \/ Forget

SpecDiscover == InitStatic /\ [][NextDiscover]_vars

\* The steps of discover itself.
DiscoverSteps ==
    \/ DscSent
    \/ DscGot
    \/ DscBreak
    \/ DscEnd
    \/ SendReceive

\* Orvibo.discover on a network whose replies may go on for ever; the
\* interpreter runs a scan that has begun.
NextFlood ==
    \/ CallDiscoverAll
    \/ DiscoverSteps
    \/ ArriveFlood
    \/ Forget

FairFlood == InitStatic /\ [][NextFlood]_vars /\ WF_vars(DiscoverSteps)

\* Packet.recv called by itself
NextRecv ==
    \/ CallRecvDirect
    \/ RecvReturned
    \/ Receive
    \/ Arrive
    \/ Forget

SpecRecv == InitStatic /\ [][NextRecv]_vars

\* close() and the property keep_connection
KeepOps ==
    \/ CallClose
    \/ CallSetKeepConnection
    \/ KcClosed
    \/ KcSubscribed

NextKeep ==
    \/ KeepOps
    \/ Handshake
    \/ Transport
    \/ Environment

SpecKeep == Init /\ [][NextKeep]_vars

\* Packet.send called by itself
NextSend ==
    \/ CallSendDirect
    \/ SendReturned
    \/ SendWritable
    \/ SendError
    \/ SendNotWritable
    \/ Forget

SpecSend == Init /\ [][NextSend]_vars

\* Packet.compile called by itself
NextCodec == CallCompile

SpecCodec == InitStatic /\ [][NextCodec]_vars

\* The interpreter runs an operation that has begun: one of its steps always
\* comes when a step is possible.
FairSpec == Spec /\ WF_vars(SocketSteps \/ Handshake \/ Transport)

\* ------------------------------------------------------------------ claims

\* C1: after two successive setPower(true) calls on a Socket session whose
\* device starts off and answers every Subscribe and Control request, exactly
\* one Control frame has been sent in total.
C1_OneControlFrame ==
    (Done /\ op.name = "control" /\ h_clean /\ h_calls = 2) => h_ctl = 1

\* An operation on a session of the wrong class.
WrongClass ==
    \/ op.name = "control" /\ type # TYPE_SOCKET
    \/ op.name \in {"learn", "emit_ir"} /\ type # TYPE_IRDA

\* C2: an operation invoked on a device of the wrong class that reports
\* failure (False or None) has sent no frame at all.
C2_WrongClassNoFrame ==
    (Done /\ WrongClass /\ ret \in {PyBool(FALSE), PyNone}) => h_frames = {}

\* C3: an operation that has sent a command frame (Control, LearnIR, BlastIR
\* or the RF433 frame) has sent a Subscribe frame and got a SubscribeResponse
\* before, in the same operation.
C3_CommandAfterSubscribe ==
    (h_frames \cap {CONTROL, LEARN_IR, BLAST_IR, BLAST_RF433} # {})
        => (SUBSCRIBE \in h_frames /\ sub_state # PyNone)

\* C4: Packet.recv(sock, expected, timeout = T) that has found no matching
\* datagram so far has made at most T readability polls.
C4_PollsWithinTimeout ==
    (op.name = "recv" /\ response = None) => i_recv <= recv_timeout

\* C5: every operation that has begun ends (returns or raises), whatever
\* arrives on the socket and however long it keeps arriving.
C5_Terminates == (pc # <<>>) ~> Done

\* C6: the first Subscribe frame of a handshake is sent no earlier than 100 ms
\* after the Subscribe frame sent last before it on the same session, and the
\* first handshake of a session does not sleep.
C6_HandshakeGap ==
    /\ h_gap >= SubscrTicks
    /\ ~h_first_slept

\* struct.unpack('>h', b) of two bytes that pack a number from 0 to H_MAX.
UnpackH(b) == b[1] * 256 + b[2]

NonGhost(d) == Len(d.data) > 7

\* The places in the scan of the replies from address a that are no ghosts.
GoodFrom(a) ==
    {i \in 1..Len(h_replies) : h_replies[i].ip = a /\ NonGhost(h_replies[i])}

\* The last of them.
LastFrom(a) == CHOOSE i \in GoodFrom(a) : \A j \in GoodFrom(a) : j <= i

\* C8: the dictionary discover() returns has exactly one entry for each
\* address a reply that is no ghost came from, and the hardware id and class
\* of the entry are those of the last such reply from that address.
C8_LastReplyWins ==
    (Done /\ op.name = "discover" /\ ret.t = "dict") =>
        /\ DOMAIN devices = {a \in {IP, IP2} : GoodFrom(a) # {}}
        /\ \A a \in DOMAIN devices :
              LET last == h_replies[LastFrom(a)].data IN
              /\ devices[a].ip = a
              /\ devices[a].mac = ParseDiscoverResponse(last).mac
              /\ devices[a].type = ParseDiscoverResponse(last).type

\* C8 witness: a scan has returned after two different replies from one
\* address and then a ghost from the same address.
C8_Witness ==
    /\ Done
    /\ op.name = "discover"
    /\ ret.t = "dict"
    /\ \E i, j, k \in 1..Len(h_replies) :
          /\ i < j
          /\ j < k
          /\ h_replies[i].ip = h_replies[j].ip
          /\ h_replies[j].ip = h_replies[k].ip
          /\ NonGhost(h_replies[i])
          /\ NonGhost(h_replies[j])
          /\ ~NonGhost(h_replies[k])
          /\ h_replies[i].data # h_replies[j].data

\* The marker: the hardware id followed by six spaces.
Marker == mac \o SPACES_6

MarkerAt(f, i) == SubSeq(f, i + 1, i + Len(Marker)) = Marker

\* C9: the signal S learn returned is the bytes of the captured frame that
\* lie six bytes after the first occurrence of the marker, and the BlastIR
\* frame a following emit_ir(S) has sent ends with exactly the bytes S.
C9_SignalRoundTrip ==
    h_learned # None =>
        LET S == h_learned[1].signal
            f == h_learned[1].frame
        IN  /\ \E i \in 0..(Len(f) - Len(Marker)) :
                  /\ MarkerAt(f, i)
                  /\ \A j \in 0..(i - 1) : ~MarkerAt(f, j)
                  /\ S = SubSeq(f, i + Len(Marker) + 6 + 1, Len(f))
            /\ (Done /\ op.name = "learn") => ret = PyBytes(S)
            /\ (op.name = "emit_ir" /\ BLAST_IR \in h_frames) =>
                  /\ op.arg = PyBytes(S)
                  /\ PacketCmd(packet) = BLAST_IR
                  /\ SubSeq(packet[1], Len(packet[1]) - Len(S) + 1, Len(packet[1])) = S

\* C9 witness: emit_ir has sent the BlastIR frame of a learned signal that is
\* not empty and was cut from a frame that holds the marker twice.
C9_Witness ==
    /\ h_learned # None
    /\ op.name = "emit_ir"
    /\ BLAST_IR \in h_frames
    /\ h_learned[1].signal # <<>>
    /\ Find(h_learned[1].frame, Marker) # RFind(h_learned[1].frame, Marker)

\* C10: emit_ir that has sent its BlastIR frame returns True if and only if a
\* datagram was received after the frame.
C10_TrueIffAck ==
    (Done /\ op.name = "emit_ir" /\ BLAST_IR \in h_frames /\ ret.t = "bool")
        => (ret = PyBool(TRUE) <=> res # None)

\* The step that ends discover after its scan has run to its end.
ScanEnds == At("dsc_end") /\ pc' = <<"done">>

\* C11, as amended: discover(ip) whose scan runs to its end returns a session
\* for address ip, with the hardware id and class of the last reply from ip
\* that is no ghost, if such a reply was collected, and raises
\* OrviboException if none was; the session is never bound to another address.
\* (A transport error during the scan raises OrviboException whatever was
\* collected.)
C11_FoundIffReplied ==
    [][(ScanEnds /\ op.arg # PyNone) =>
          IF GoodFrom(op.arg.v) # {}
          THEN LET last == ParseDiscoverResponse(h_replies[LastFrom(op.arg.v)].data)
               IN  /\ ret' = [t |-> "Orvibo", v |-> op.arg.v]
                   /\ type' = last.type
                   /\ mac' = InitMac(PyBytes(last.mac))
          ELSE /\ ret' = PyRaise("OrviboException")
               /\ UNCHANGED <<type, mac>>]_vars

\* C11 witness: discover(ip) has returned a session after a scan that also
\* collected a ghost from ip and a reply from another address.
C11_Witness ==
    /\ Done
    /\ op.name = "discover"
    /\ ret.t = "Orvibo"
    /\ \E i, j \in 1..Len(h_replies) :
          /\ h_replies[i].ip = op.arg.v
          /\ ~NonGhost(h_replies[i])
          /\ h_replies[j].ip # op.arg.v
          /\ NonGhost(h_replies[j])

\* C11 as the claim states it: discover(ip) returns a session for ip if and
\* only if a reply from ip that is no ghost was collected during the scan.
C11_Original ==
    (Done /\ op.name = "discover" /\ op.arg # PyNone) =>
        IF GoodFrom(op.arg.v) # {}
        THEN ret = [t |-> "Orvibo", v |-> op.arg.v]
        ELSE ret = PyRaise("OrviboException")

\* C12: Packet.send does not return normally having transmitted nothing: when
\* the step after a send is reached, the frame of that send has gone out.
C12_SendTransmitsOrRaises ==
    /\ At("sub_sent") => SUBSCRIBE \in h_frames
    /\ At("ctl_sent") => CONTROL \in h_frames

\* C13: the socket an operation creates for itself is closed when the
\* operation has ended, whether it returned or raised.
C13_SocketClosed == Done => ~sock_open

\* What learn gives its caller: None, a signal, or one of its two exceptions.
LearnOutcomes == {"None", "bytes", "OrviboException", "IndexError"}

\* C14: learn_ir(fname, timeout) ends as learn(fname, timeout) can end: with
\* one of the results of learn.
C14_LearnIrAsLearn ==
    (Done /\ op.name \in {"learn", "learn_ir"}) => ret.t \in LearnOutcomes

\* The earliest datagram of log whose command is e (optional).
FirstMatch(log, e) ==
    LET hits == {i \in 1..Len(log) : SubSeq(log[i].data, 5, 6) = e}
    IN  IF hits = {} THEN None
        ELSE Some(log[CHOOSE i \in hits : \A j \in hits : i <= j])

\* C15: Packet.recv given an expected command returns None or a datagram
\* whose command is the expected one, and what it returns is the earliest
\* such datagram received during the call; none before it is returned.
C15_EarliestMatch ==
    (At("recv_ret") /\ expect # None) => response = FirstMatch(h_seen, expect[1])

\* C15 witness: recv has returned a matching datagram received after two
\* datagrams with other commands.
C15_Witness ==
    /\ At("recv_ret")
    /\ expect # None
    /\ response # None
    /\ Len(h_seen) >= 3

\* C16: every entry of the dictionary of discover is what a received
\* datagram with the command DiscoverResponse from that address gives;
\* a datagram with another command adds or replaces no entry.
C16_OnlyDiscoverResponses ==
    op.name = "discover" =>
        \A a \in DOMAIN devices :
            \E i \in 1..Len(h_replies) :
                /\ h_replies[i].ip = a
                /\ SubSeq(h_replies[i].data, 5, 6) = DISCOVER_RESP
                /\ devices[a].mac = ParseDiscoverResponse(h_replies[i].data).mac
                /\ devices[a].type = ParseDiscoverResponse(h_replies[i].data).type

\* C17: every entry of the dictionary of discover has a hardware id of
\* exactly 6 bytes; a reply too short to hold one produces no entry.
C17_FullHardwareId ==
    op.name = "discover" => \A a \in DOMAIN devices : Len(devices[a].mac) = 6

\* C18: discover processes at most 512 received datagrams, leaves its loop
\* before that only at a receive that yields None, keeps at most 512
\* entries, and ends (returns or raises) even when replies never stop.
C18_ScanBounded ==
    /\ [](op.name = "discover" =>
            /\ indx <= 512
            /\ Len(h_replies) = indx
            /\ Cardinality(DOMAIN devices) <= 512
            /\ At("dsc_end") => (indx = 512 \/ response = None))
    /\ (op.name = "discover") ~> Done

\* C18 witness: a scan has returned after 512 datagrams, none of its
\* receives having yielded None.
C18_Witness ==
    /\ Done
    /\ op.name = "discover"
    /\ ret.t = "dict"
    /\ indx = 512
    /\ Len(h_replies) = 512

\* A step that ends subscribe().
SubscribeEnds == op.name = "subscribe" /\ pc # <<"done">> /\ pc' = <<"done">>

\* What the SubscribeResponses read so far make of the state.
LastReported ==
    IF h_sub_resps = <<>> THEN PyNone
    ELSE LET d == h_sub_resps[Len(h_sub_resps)] IN PyInt(d[Len(d)])

\* C19: subscribe ends either at a failure of the transport, raising
\* OrviboException, or by returning the last byte of the SubscribeResponse
\* it read last, None exactly when it read none; what it read with another
\* command code has no part in the value.
C19_LastResponseByte ==
    [][SubscribeEnds =>
         IF At("pub_sub_done") THEN ret' = LastReported
         ELSE ret' = PyRaise("OrviboException")]_vars

\* C19 witness: subscribe has returned the state of the later of two
\* SubscribeResponses that differ in their last byte.
C19_Witness ==
    /\ Done
    /\ op.name = "subscribe"
    /\ Len(h_sub_resps) = 2
    /\ h_sub_resps[1] # h_sub_resps[2]
    /\ ret = LastReported
    /\ ret # PyNone

\* C19 as stated: subscribe never raises; it returns None exactly when it
\* read no SubscribeResponse, and else the last byte of the latest one.
C19_Original ==
    (Done /\ op.name = "subscribe") => ret = LastReported

\* A frame with the learn code whose length field is not 0x0018.
Qualifies(d) == SubSeq(d, 5, 6) = <<108, 115>> /\ SubSeq(d, 3, 4) # <<0, 24>>

\* C20: a signal learn returns is cut from a received frame with the learn
\* code and a length field other than 0x0018; in its loop a received frame
\* that is not such a frame sends it back to the top of the loop, and at the
\* top of the loop with more than timeout elapsed it returns None.
C20_SignalOnlyFromCapture ==
    /\ []((Done /\ op.name = "learn" /\ ret.t = "bytes") =>
            /\ h_learned # None
            /\ Qualifies(h_learned[1].frame)
            /\ ret.v = h_learned[1].signal)
    /\ [][(At("lrn_got") /\ response # None /\ ~Qualifies(response[1].data) /\ pc' # pc)
            => (pc' = <<"lrn_wait">> /\ ret' = ret)]_vars
    /\ [][(At("lrn_wait") /\ elapsed > op.timeout /\ pc' # pc)
            => (pc' = <<"done">> /\ ret' = PyNone)]_vars

\* C20 witness: learn has returned a signal that is not empty, after the
\* device has been switched to capture.
C20_Witness ==
    /\ Done
    /\ op.name = "learn"
    /\ ret.t = "bytes"
    /\ ret.v # <<>>
    /\ LEARN_IR \in h_frames
    /\ Qualifies(h_learned[1].frame)

\* C21: learn never ends with an error raised by the content of a frame;
\* a frame with the learn code, a length other than 0x0018 and no marker
\* makes it return None.
C21_NoContentError ==
    (Done /\ op.name = "learn") => ret.t # "IndexError"

\* C22: a Packet.send that found its socket writable at every select has
\* called sendto exactly once when the packet has data, whatever its
\* timeout argument, and never when the packet has none.
C22_SentOnce ==
    (Done /\ op.name = "send" /\ ret = PyNone /\ h_sent = i_send) =>
        h_sent = (IF packet = None THEN 0 ELSE 1)

\* C23: between operations keep_connection is true exactly when the session
\* holds an open socket on which its subscription succeeded; after a
\* keep_connection = True that failed it is false.
C23_KeepConnectionIffSubscribed ==
    (Idle \/ Done) => (keep_connection <=> (sock_open /\ h_kc_ok))

\* C24: the session discover(ip) returns holds the 6-byte hardware id parsed
\* from the reply it was built from, whatever the bytes of that id.
C24_HoldsParsedId ==
    (Done /\ op.name = "discover" /\ ret.t = "Orvibo") =>
        /\ Len(mac) = 6
        /\ mac = ParseDiscoverResponse(h_replies[LastFrom(op.arg.v)].data).mac

====
